---- MODULE Spec2Model ----
(***************************************************************************)
(* The StockAgent Durable Object of src/src/worker.js: one in-memory       *)
(* ledger (portfolio, history), its two durable keys, and the request      *)
(* handlers /api/chat, /api/reset and /api/state.  A handler runs from one *)
(* await to the next without interruption; at every await (request.json,   *)
(* env.AI.run, storage.put) the handlers of other requests may run.        *)
(*                                                                         *)
(* Left out: the free-text "reason" field of a decision (it is copied to   *)
(* the reply and never read), the news text, and the CORS headers.         *)
(***************************************************************************)
EXTENDS Integers, Sequences, FiniteSets

(***************************************************************************)
(* Bounds of the model.                                                    *)
(***************************************************************************)
\* requests that arrive in one run
MaxRequests == 2

\* times the object is restarted (evicted and constructed again) in one run
MaxRestarts == 1

\* entries of the history that storage holds when a seeded run starts
SeedLen == 49

Requests == 1..MaxRequests

(***************************************************************************)
(* JavaScript values.  A number is an integer, or NaN; a field that an     *)
(* object lacks reads as undefined.  Both are encoded as integers no       *)
(* arithmetic of the model produces.                                       *)
(***************************************************************************)
NaN == -999999999
Undefined == -999999998

IsNum(x) == x # NaN /\ x # Undefined

\* ToNumber(x) * ToNumber(y)
Mul(x, y) == IF IsNum(x) /\ IsNum(y) THEN x * y ELSE NaN

\* ToNumber(x) + ToNumber(y)
Add(x, y) == IF IsNum(x) /\ IsNum(y) THEN x + y ELSE NaN

\* ToNumber(x) - ToNumber(y)
Sub(x, y) == IF IsNum(x) /\ IsNum(y) THEN x - y ELSE NaN

\* x >= y : false as soon as one side is NaN
Ge(x, y) == IsNum(x) /\ IsNum(y) /\ x >= y

\* x || 0 : undefined, NaN and 0 are falsy
OrZero(x) == IF IsNum(x) THEN x ELSE 0

(***************************************************************************)
(* The portfolio.  holdings is an object: a function whose domain is its   *)
(* set of keys.                                                            *)
(***************************************************************************)
InitialCash == 100000

EmptyHoldings == [t \in {} |-> 0]

DefaultPortfolio == [cash |-> InitialCash, holdings |-> EmptyHoldings]

\* holdings[t]
Get(h, t) == IF t \in DOMAIN h THEN h[t] ELSE Undefined

\* holdings[t] = v
Put(h, t, v) == [k \in (DOMAIN h) \cup {t} |-> IF k = t THEN v ELSE h[k]]

\* delete holdings[t]
Delete(h, t) == [k \in (DOMAIN h) \ {t} |-> h[k]]

(***************************************************************************)
(* What the oracle may answer.                                             *)
(***************************************************************************)
Tickers == {"AAPL", "TSLA", "NONE"}

Decision(t, a, q, p) ==
  [ticker |-> t, action |-> a, quantity |-> q, price_estimate |-> p,
   isNull |-> FALSE]

\* a share price; twice it is the whole initial cash
Price == 50000

\* decisions of the documented schema: BUY and SELL of 0, 1 or 2 shares of a
\* ticker, and the decisions HOLD or "NONE" makes no-ops
TradeDecisions ==
  {Decision(t, a, q, Price) : t \in {"AAPL", "TSLA"}, a \in {"BUY", "SELL"},
                              q \in {0, 1, 2}}

NoOpDecisions ==
  {Decision(t, "HOLD", 1, Price) : t \in {"AAPL", "NONE"}}
    \cup {Decision("NONE", a, 1, Price) : a \in {"BUY", "SELL"}}

\* objects outside the schema: an action that is none of the three ("SHORT"
\* stands for all of them), a negative or missing quantity, a negative or
\* missing price_estimate
OffSchemaDecisions ==
  {Decision("AAPL", "SHORT", 1, Price)}
    \cup {Decision("AAPL", a, q, Price) : a \in {"BUY", "SELL"},
                                          q \in {-1, Undefined}}
    \cup {Decision("AAPL", a, 1, p) : a \in {"BUY", "SELL"},
                                      p \in {-Price, Undefined}}

\* the objects the oracle's JSON may denote
Decisions == TradeDecisions \cup NoOpDecisions \cup OffSchemaDecisions

\* the JSON text "null"
NullDecision ==
  [ticker |-> "", action |-> "", quantity |-> Undefined,
   price_estimate |-> Undefined, isNull |-> TRUE]

JsonValues == Decisions \cup {NullDecision}

(***************************************************************************)
(* The oracle's text, as a sequence of tokens: a run of whitespace, a      *)
(* bare code fence (three backticks), a json code fence (three backticks   *)
(* and the word json), the text of one JSON value, or anything else        *)
(* (prose).                                                                *)
(***************************************************************************)
Ws == [tok |-> "ws"]

Fence == [tok |-> "fence"]

FenceJson == [tok |-> "fence_json"]

Prose == [tok |-> "prose"]

Json(v) == [tok |-> "json", val |-> v]

\* String.prototype.trim
RECURSIVE Trim(_)
Trim(s) ==
  IF s = <<>> THEN s
  ELSE IF Head(s) = Ws THEN Trim(Tail(s))
  ELSE IF s[Len(s)] = Ws THEN Trim(SubSeq(s, 1, Len(s) - 1))
  ELSE s

\* s.startsWith of the json fence
StartsWithFenceJson(s) == s # <<>> /\ Head(s) = FenceJson

\* s.startsWith of the bare fence: a json fence starts with one too
StartsWithFence(s) == s # <<>> /\ Head(s) \in {Fence, FenceJson}

\* s.replace of the json fence by the empty string: drops the first one
RECURSIVE ReplaceFenceJson(_)
ReplaceFenceJson(s) ==
  IF s = <<>> THEN s
  ELSE IF Head(s) = FenceJson THEN Tail(s)
  ELSE <<Head(s)>> \o ReplaceFenceJson(Tail(s))

\* s.replace of the bare fence by the empty string: drops the first one;
\* inside a json fence that leaves the letters json behind
RECURSIVE ReplaceFence(_)
ReplaceFence(s) ==
  IF s = <<>> THEN s
  ELSE IF Head(s) = Fence THEN Tail(s)
  ELSE IF Head(s) = FenceJson THEN <<Prose>> \o Tail(s)
  ELSE <<Head(s)>> \o ReplaceFence(Tail(s))

\* lines 155-158: trim, then strip the markdown code fence
CleanText(text) ==
  LET cleanText == Trim(text)
  IN  IF StartsWithFenceJson(cleanText)
        THEN ReplaceFence(ReplaceFenceJson(cleanText))
      ELSE IF StartsWithFence(cleanText)
        THEN ReplaceFence(ReplaceFence(cleanText))
      ELSE cleanText

\* the tokens of s that are not whitespace (JSON.parse skips whitespace)
NonWs(s) == SelectSeq(s, LAMBDA t : t # Ws)

\* JSON.parse(s) succeeds: s is one JSON value and whitespace
Parses(s) == Len(NonWs(s)) = 1 /\ NonWs(s)[1].tok = "json"

\* JSON.parse(s), where it succeeds
JSONParse(s) == NonWs(s)[1].val

\* the catch block's decision
Fallback ==
  [ticker |-> "ERROR", action |-> "HOLD", quantity |-> Undefined,
   price_estimate |-> Undefined, isNull |-> FALSE]

\* what env.AI.run may do: reject (or answer without a text), or answer a text
ErrorOutcome == [kind |-> "error", text |-> <<>>]

TextOutcome(text) == [kind |-> "text", text |-> text]

\* the shapes of text the oracle wraps a JSON value in
TextsOf(v) ==
  { <<Json(v)>>,
    <<Ws, Json(v), Ws>>,
    <<FenceJson, Ws, Json(v), Ws, Fence>>,
    <<Fence, Json(v), Fence>>,
    <<Json(v), Fence>>,
    <<Prose, Json(v)>> }

\* texts that hold no JSON value
ProseTexts == { <<>>, <<Prose>>, <<FenceJson, Fence>> }

\* consultAI without its catch block: a failure reaches fetch() as no decision
ConsultAINoCatch(outcome) ==
  IF outcome.kind = "error" THEN NullDecision
  ELSE IF Parses(CleanText(outcome.text)) THEN JSONParse(CleanText(outcome.text))
  ELSE NullDecision

\* consultAI, from the oracle's outcome on: the decision it returns
ConsultAI(outcome) ==
  IF outcome.kind = "error" THEN Fallback
  ELSE IF Parses(CleanText(outcome.text)) THEN JSONParse(CleanText(outcome.text))
  ELSE Fallback

Outcomes ==
  {ErrorOutcome}
    \cup {TextOutcome(t) : t \in ProseTexts}
    \cup {TextOutcome(t) : t \in UNION {TextsOf(v) : v \in JsonValues}}

(***************************************************************************)
(* executeTrade, up to its await of save().                                *)
(***************************************************************************)
\* history keeps this many entries
MaxHistory == 50

\* the BUY branch with > for >=
BuyStrict(p, decision) ==
  LET cost == Mul(decision.quantity, decision.price_estimate)
  IN  IF Ge(p.cash, cost) /\ p.cash # cost
        THEN [portfolio |->
                [cash |-> Sub(p.cash, cost),
                 holdings |->
                   Put(p.holdings, decision.ticker,
                       Add(OrZero(Get(p.holdings, decision.ticker)),
                           decision.quantity))],
              status |-> "EXECUTED"]
        ELSE [portfolio |-> p, status |-> "FAILED - INSUFFICIENT FUNDS"]

\* lines 182-189: the BUY branch; the portfolio after it and the status
Buy(p, decision) ==
  LET cost == Mul(decision.quantity, decision.price_estimate)
  IN  IF Ge(p.cash, cost)
        THEN [portfolio |->
                [cash |-> Sub(p.cash, cost),
                 holdings |->
                   Put(p.holdings, decision.ticker,
                       Add(OrZero(Get(p.holdings, decision.ticker)),
                           decision.quantity))],
              status |-> "EXECUTED"]
        ELSE [portfolio |-> p, status |-> "FAILED - INSUFFICIENT FUNDS"]

\* lines 190-201: the SELL branch
Sell(p, decision) ==
  LET currentQty == OrZero(Get(p.holdings, decision.ticker))
      gain == Mul(decision.quantity, decision.price_estimate)
      left == Sub(Get(p.holdings, decision.ticker), decision.quantity)
  IN  IF Ge(currentQty, decision.quantity)
        THEN [portfolio |->
                [cash |-> Add(p.cash, gain),
                 holdings |->
                   IF left = 0 THEN Delete(p.holdings, decision.ticker)
                   ELSE Put(p.holdings, decision.ticker, left)],
              status |-> "EXECUTED"]
        ELSE [portfolio |-> p, status |-> "FAILED - INSUFFICIENT HOLDINGS"]

\* the branches without their guard on the ticker "NONE"
ApplyAnyTicker(p, decision) ==
  IF decision.action = "BUY" THEN Buy(p, decision)
  ELSE IF decision.action = "SELL" THEN Sell(p, decision)
  ELSE [portfolio |-> p, status |-> "EXECUTED"]

\* lines 182-201: the branch the decision takes
Apply(p, decision) ==
  IF decision.action = "BUY" /\ decision.ticker # "NONE" THEN Buy(p, decision)
  ELSE IF decision.action = "SELL" /\ decision.ticker # "NONE"
    THEN Sell(p, decision)
  ELSE [portfolio |-> p, status |-> "EXECUTED"]

\* lines 176-180 and the status of 188, 199
LogEntry(decision, status, now) ==
  [timestamp |-> now, ticker |-> decision.ticker, action |-> decision.action,
   quantity |-> decision.quantity, price_estimate |-> decision.price_estimate,
   status |-> status]

\* line 203 without line 204: the history grows without a bound
UnshiftNoPop(h, entry) == <<entry>> \o h

\* lines 203-204: unshift, then pop beyond MaxHistory entries
Unshift(h, entry) ==
  LET grown == <<entry>> \o h
  IN  IF Len(grown) > MaxHistory THEN SubSeq(grown, 1, Len(grown) - 1)
      ELSE grown

\* an executeTrade that logs the trades it executed and no rejected one
ExecuteTradeLogsExecuted(p, h, decision, now) ==
  LET applied_ == Apply(p, decision)
      logEntry == LogEntry(decision, applied_.status, now)
  IN  [portfolio |-> applied_.portfolio,
       history |-> IF applied_.status = "EXECUTED" THEN Unshift(h, logEntry)
                   ELSE h,
       logEntry |-> logEntry]

\* lines 176-204: the portfolio, the history and the log entry of one call
ExecuteTrade(p, h, decision, now) ==
  LET applied_ == Apply(p, decision)
      logEntry == LogEntry(decision, applied_.status, now)
  IN  [portfolio |-> applied_.portfolio,
       history |-> Unshift(h, logEntry),
       logEntry |-> logEntry]

(***************************************************************************)
(* The state.                                                              *)
(***************************************************************************)
VARIABLES
  portfolio,   \* this.portfolio
  history,     \* this.history, newest entry first
  stored,      \* the durable keys "portfolio" and "history"
  arrived,     \* how many requests fetch() has accepted; request i is the i-th
  kind,        \* kind[i]: the route of request i
  pc,          \* pc[i]: the await request i is suspended at
  promptSnap,  \* promptSnap[i]: the cash and holdings written into its prompt
  oracle,      \* oracle[i]: how the oracle call of request i ended
  tradeLog,    \* tradeLog[i]: the logEntry of its executeTrade call
  response,    \* response[i]: what its caller receives
  applied,     \* the requests whose executeTrade has run, in that order
  clock,       \* the time new Date() reads
  stateResp,   \* the body of the /api/state response being sent, if any
  boot,        \* the constructor's load: the await it is at, what it has read
  restarts,    \* how many times the object has been constructed again
  result       \* result[i]: the ledger as the handler of request i left it

vars ==
  <<portfolio, history, stored, arrived, kind, pc, promptSnap, oracle,
    tradeLog, response, applied, clock, stateResp, boot, restarts, result>>

NoSnap == [cash |-> Undefined, holdings |-> EmptyHoldings]

NoEntry == LogEntry(NullDecision, "", 0)

NoResponse == [status |-> 0]

NoStateResp == [sent |-> FALSE]

\* a storage.put or a TypeError that escapes fetch(): the caller gets an error
ErrorResponse(why) == [status |-> 500, error |-> why]

NoResult == [set |-> FALSE]

\* the ledger a handler leaves when its synchronous mutation ends
Result(p, h) == [set |-> TRUE, portfolio |-> p, history |-> h]

\* the ledger a reset leaves in memory (lines 76-77), and whether no other
\* handler is suspended when it does
ResetResult(others) ==
  [set |-> TRUE, portfolio |-> DefaultPortfolio, history |-> <<>>,
   alone |-> ~others]

\* storage that holds neither key
EmptyStorage ==
  [keys |-> {}, portfolio |-> DefaultPortfolio, history |-> <<>>]

\* storage as SeedLen chats whose oracle call failed leave it: the default
\* portfolio and SeedLen fallback entries, logged before the clock starts
SeededStorage ==
  [keys |-> {"portfolio", "history"},
   portfolio |-> DefaultPortfolio,
   history |-> [k \in 1..SeedLen |-> LogEntry(Fallback, "EXECUTED", 1 - k)]]

\* a constructor that starts the load without blockConcurrencyWhile
ReadyAlways == TRUE

\* blockConcurrencyWhile (line 60): no request is delivered before the load
\* has ended
Ready == boot.at = "ready"

\* the object is constructed over the given storage (lines 52-61)
InitWith(storage) ==
  /\ stored = storage
  /\ boot = [at |-> "get1", hasPortfolio |-> FALSE,
             portfolio |-> DefaultPortfolio, arrived |-> 0]
  /\ restarts = 0
  /\ result = [i \in Requests |-> NoResult]
  /\ portfolio = DefaultPortfolio
  /\ history = <<>>
  /\ arrived = 0
  /\ kind = [i \in Requests |-> "none"]
  /\ pc = [i \in Requests |-> "idle"]
  /\ promptSnap = [i \in Requests |-> NoSnap]
  /\ oracle = [i \in Requests |-> "none"]
  /\ tradeLog = [i \in Requests |-> NoEntry]
  /\ response = [i \in Requests |-> NoResponse]
  /\ applied = <<>>
  /\ clock = 1
  /\ stateResp = NoStateResp

\* a first construction: nothing is stored yet
Init == InitWith(EmptyStorage)

\* a construction over the storage an earlier life of the object left
InitSeeded == InitWith(SeededStorage)

\* storage.get("portfolio") settles; the load awaits storage.get("history")
\* (lines 61-62)
LoadPortfolio ==
  /\ boot.at = "get1"
  /\ boot' = [boot EXCEPT !.at = "get2",
                          !.hasPortfolio = "portfolio" \in stored.keys,
                          !.portfolio = stored.portfolio]
  /\ UNCHANGED <<portfolio, history, stored, arrived, kind, pc, promptSnap,
                 oracle, tradeLog, response, applied, clock, stateResp,
                 restarts, result>>

\* storage.get("history") settles; what was read replaces the defaults
\* (lines 62-64) and the load ends
LoadHistory ==
  /\ boot.at = "get2"
  /\ portfolio' = IF boot.hasPortfolio THEN boot.portfolio ELSE portfolio
  /\ history' = IF "history" \in stored.keys THEN stored.history ELSE history
  /\ boot' = [boot EXCEPT !.at = "ready"]
  /\ UNCHANGED <<stored, arrived, kind, pc, promptSnap, oracle, tradeLog,
                 response, applied, clock, stateResp, restarts, result>>

\* storage.put(key, value), called by request i, which then awaits it at
\* pc okAt; a put that is going to reject leaves storage alone (failAt)
StoragePut(i, key, value, okAt, failAt) ==
  \E ok \in BOOLEAN :
    IF ok
      THEN /\ stored' = [stored EXCEPT !.keys = @ \cup {key}, ![key] = value]
           /\ pc' = [pc EXCEPT ![i] = okAt]
      ELSE /\ UNCHANGED stored
           /\ pc' = [pc EXCEPT ![i] = failAt]

\* save(), up to its first await (line 106)
Save(i) == StoragePut(i, "portfolio", portfolio', "put1", "put1x")

\* /api/chat arrives and awaits request.json() (lines 89-90)
ChatArrives ==
  /\ Ready
  /\ arrived < MaxRequests
  /\ arrived' = arrived + 1
  /\ kind' = [kind EXCEPT ![arrived + 1] = "chat"]
  /\ pc' = [pc EXCEPT ![arrived + 1] = "body"]
  /\ stateResp' = NoStateResp
  /\ UNCHANGED <<portfolio, history, stored, promptSnap, oracle, tradeLog,
                 response, applied, clock, boot, restarts, result>>

\* consultAI builds the prompt and awaits env.AI.run (lines 113-152)
BuildPrompt(i) ==
  /\ pc[i] = "body"
  /\ promptSnap' = [promptSnap EXCEPT ![i] = portfolio]
  /\ pc' = [pc EXCEPT ![i] = "oracle"]
  /\ stateResp' = NoStateResp
  /\ UNCHANGED <<portfolio, history, stored, arrived, kind, oracle, tradeLog,
                 response, applied, clock, boot, restarts, result>>

\* how the oracle call ended, as the catch block tells it apart
OracleEnd(outcome) ==
  IF outcome.kind = "error" THEN "error"
  ELSE IF Parses(CleanText(outcome.text)) THEN "parsed"
  ELSE "unparsable"

\* the oracle answers: consultAI returns its decision (lines 154-169) and
\* executeTrade runs up to its await of save() (lines 97, 176-206); a
\* decision of null makes executeTrade throw at line 182
OracleReturns(i) ==
  /\ pc[i] = "oracle"
  /\ \E outcome \in Outcomes :
       LET decision == ConsultAI(outcome)
           done == ExecuteTrade(portfolio, history, decision, clock)
       IN  /\ oracle' = [oracle EXCEPT ![i] = OracleEnd(outcome)]
           /\ IF decision.isNull
                THEN /\ pc' = [pc EXCEPT ![i] = "failed"]
                     /\ response' =
                          [response EXCEPT ![i] = ErrorResponse("TypeError")]
                     /\ UNCHANGED <<portfolio, history, stored, tradeLog,
                                    applied, clock, result>>
                ELSE /\ portfolio' = done.portfolio
                     /\ history' = done.history
                     /\ tradeLog' = [tradeLog EXCEPT ![i] = done.logEntry]
                     /\ applied' = Append(applied, i)
                     /\ clock' = clock + 1
                     /\ result' =
                          [result EXCEPT
                             ![i] = Result(done.portfolio, done.history)]
                     /\ Save(i)
                     /\ UNCHANGED response
  /\ promptSnap' = [promptSnap EXCEPT ![i] = NoSnap]
  /\ stateResp' = NoStateResp
  /\ UNCHANGED <<arrived, kind, boot, restarts>>

\* a reset that tops the cash up by the initial amount instead of setting it
ResetAddsCash ==
  /\ Ready
  /\ arrived < MaxRequests
  /\ arrived' = arrived + 1
  /\ kind' = [kind EXCEPT ![arrived + 1] = "reset"]
  /\ portfolio' = [cash |-> Add(portfolio.cash, InitialCash),
                   holdings |-> EmptyHoldings]
  /\ history' = <<>>
  /\ result' = [result EXCEPT
                  ![arrived + 1] =
                    [ResetResult(\E j \in Requests :
                                   pc[j] \notin {"idle", "done", "failed",
                                                 "aborted"})
                       EXCEPT !.portfolio = portfolio']]
  /\ Save(arrived + 1)
  /\ stateResp' = NoStateResp
  /\ UNCHANGED <<promptSnap, oracle, tradeLog, response, applied, clock, boot,
                 restarts>>

\* /api/reset arrives and runs up to its await of save() (lines 75-78)
ResetArrives ==
  /\ Ready
  /\ arrived < MaxRequests
  /\ arrived' = arrived + 1
  /\ kind' = [kind EXCEPT ![arrived + 1] = "reset"]
  /\ portfolio' = DefaultPortfolio
  /\ history' = <<>>
  /\ result' = [result EXCEPT
                  ![arrived + 1] =
                    ResetResult(\E j \in Requests :
                                  pc[j] \notin {"idle", "done", "failed",
                                                "aborted"})]
  /\ Save(arrived + 1)
  /\ stateResp' = NoStateResp
  /\ UNCHANGED <<promptSnap, oracle, tradeLog, response, applied, clock, boot,
                 restarts>>

\* the put of "portfolio" settles: save() goes on to put "history" (line
\* 107), or the rejection escapes fetch()
PutPortfolioSettles(i) ==
  /\ pc[i] \in {"put1", "put1x"}
  /\ IF pc[i] = "put1"
       THEN /\ StoragePut(i, "history", history, "put2", "put2x")
            /\ UNCHANGED response
       ELSE /\ pc' = [pc EXCEPT ![i] = "failed"]
            /\ response' = [response EXCEPT ![i] = ErrorResponse("IOError")]
            /\ UNCHANGED stored
  /\ stateResp' = NoStateResp
  /\ UNCHANGED <<portfolio, history, arrived, kind, promptSnap, oracle,
                 tradeLog, applied, clock, boot, restarts, result>>

\* what a handler answers once its save() has returned (lines 79, 208-212, 99)
Answer(i) ==
  IF kind[i] = "reset" THEN [status |-> 200, message |-> "Agent Reset"]
  ELSE [status |-> 200, trade_details |-> tradeLog[i],
        new_portfolio |-> portfolio]

\* the put of "history" settles: the handler answers, or the rejection
\* escapes fetch()
PutHistorySettles(i) ==
  /\ pc[i] \in {"put2", "put2x"}
  /\ IF pc[i] = "put2"
       THEN /\ pc' = [pc EXCEPT ![i] = "done"]
            /\ response' = [response EXCEPT ![i] = Answer(i)]
       ELSE /\ pc' = [pc EXCEPT ![i] = "failed"]
            /\ response' = [response EXCEPT ![i] = ErrorResponse("IOError")]
  /\ stateResp' = NoStateResp
  /\ UNCHANGED <<portfolio, history, stored, arrived, kind, promptSnap,
                 oracle, tradeLog, applied, clock, boot, restarts, result>>

\* a handler of /api/state that takes the history from storage
ApiStateFromStorage ==
  /\ Ready
  /\ stateResp' = [sent |-> TRUE, portfolio |-> portfolio,
                   history |-> IF "history" \in stored.keys
                                 THEN stored.history ELSE <<>>]
  /\ UNCHANGED <<portfolio, history, stored, arrived, kind, pc, promptSnap,
                 oracle, tradeLog, response, applied, clock, boot, restarts,
                 result>>

\* /api/state: answered in one piece (lines 82-87)
ApiState ==
  /\ Ready
  /\ stateResp' = [sent |-> TRUE, portfolio |-> portfolio, history |-> history]
  /\ UNCHANGED <<portfolio, history, stored, arrived, kind, pc, promptSnap,
                 oracle, tradeLog, response, applied, clock, boot, restarts,
                 result>>

\* the handler of request i is suspended at an await
Running(i) == pc[i] \notin {"idle", "done", "failed", "aborted"}

\* the object is evicted or crashes and is constructed again (lines 52-61):
\* memory is back at the defaults, the handlers that were running are gone
\* and their callers get an error; storage is what the puts made it
Restart ==
  /\ restarts < MaxRestarts
  /\ restarts' = restarts + 1
  /\ portfolio' = DefaultPortfolio
  /\ history' = <<>>
  /\ boot' = [at |-> "get1", hasPortfolio |-> FALSE,
              portfolio |-> DefaultPortfolio, arrived |-> arrived]
  /\ pc' = [i \in Requests |-> IF Running(i) THEN "aborted" ELSE pc[i]]
  /\ response' = [i \in Requests |->
                    IF Running(i) THEN ErrorResponse("Restart")
                    ELSE response[i]]
  /\ promptSnap' = [i \in Requests |-> NoSnap]
  /\ stateResp' = NoStateResp
  /\ UNCHANGED <<stored, arrived, kind, oracle, tradeLog, applied, clock,
                 result>>

Next ==
  \/ LoadPortfolio
  \/ LoadHistory
  \/ Restart
  \/ ChatArrives
  \/ ResetArrives
  \/ ApiState
  \/ \E i \in Requests : BuildPrompt(i)
  \/ \E i \in Requests : OracleReturns(i)
  \/ \E i \in Requests : PutPortfolioSettles(i)
  \/ \E i \in Requests : PutHistorySettles(i)

Spec == Init /\ [][Next]_vars

\* the same object, constructed over seeded storage
SpecSeeded == InitSeeded /\ [][Next]_vars

(***************************************************************************)
(* Vocabulary of the properties.                                           *)
(***************************************************************************)
\* request i is between building its prompt (chat) or resetting the ledger
\* (reset) and the end of its save()
InCritical(i) == pc[i] \in {"oracle", "put1", "put1x", "put2", "put2x"}

\* this step runs executeTrade for request i
Applies(i) == pc[i] = "oracle" /\ pc'[i] \in {"put1", "put1x"}

\* no handler is suspended at an await
Quiescent == \A i \in Requests : ~Running(i)

Min(a, b) == IF a <= b THEN a ELSE b

\* holdings[t] or 0
Held(h, t) == IF t \in DOMAIN h /\ IsNum(h[t]) THEN h[t] ELSE 0

\* what a restart would load from storage
DurablePortfolio ==
  IF "portfolio" \in stored.keys THEN stored.portfolio ELSE DefaultPortfolio

DurableHistory == IF "history" \in stored.keys THEN stored.history ELSE <<>>

\* a log entry whose decision has the schema of a Decision
SchemaValid(e) ==
  /\ e.action \in {"BUY", "SELL", "HOLD"}
  /\ IsNum(e.quantity) /\ e.quantity >= 0
  /\ IsNum(e.price_estimate) /\ e.price_estimate >= 0

\* a log entry of the fallback decision
IsFallback(e) ==
  /\ e.ticker = "ERROR"
  /\ e.action = "HOLD"
  /\ e.quantity = Undefined
  /\ e.price_estimate = Undefined

\* the keys of h other than t keep their quantities in h2
OthersUnchanged(h, h2, t) ==
  /\ (DOMAIN h2) \ {t} = (DOMAIN h) \ {t}
  /\ \A k \in (DOMAIN h) \ {t} : h2[k] = h[k]

(***************************************************************************)
(* C1: in every reachable state cash >= 0, every holding is >= 0, and no   *)
(* ticker key maps to 0.                                                   *)
(***************************************************************************)
LedgerInvariant ==
  /\ Ge(portfolio.cash, 0)
  /\ \A t \in DOMAIN portfolio.holdings :
       Ge(portfolio.holdings[t], 0) /\ portfolio.holdings[t] # 0

(***************************************************************************)
(* C2: at most one mutating request is inside its critical section (from   *)
(* prompt build, or reset, to the end of its save) at any time.            *)
(***************************************************************************)
SingleWriter == Cardinality({i \in Requests : InCritical(i)}) <= 1

(***************************************************************************)
(* C3: when executeTrade applies the decision of a request, the portfolio  *)
(* equals the one written into the prompt of that request.                 *)
(***************************************************************************)
SnapshotNeverStale ==
  [][\A i \in Requests : Applies(i) => portfolio = promptSnap[i]]_vars

(***************************************************************************)
(* C4: trades are applied in the order their requests were accepted        *)
(* (request numbers are given in order of acceptance).                     *)
(***************************************************************************)
AppliedInArrivalOrder ==
  \A j, k \in 1..Len(applied) : j < k => applied[j] < applied[k]

(***************************************************************************)
(* C5: a BUY of a ticker other than "NONE", cost = quantity *              *)
(* price_estimate: with cash >= cost, cash falls by cost, holdings[ticker] *)
(* (or 0) rises by quantity, the other holdings stay, status EXECUTED;     *)
(* with cost > cash nothing changes and the status is the                  *)
(* insufficient-funds failure.  BUY AAPL 10 @ 100 from the defaults gives  *)
(* cash 99000 and holdings {AAPL: 10}.                                     *)
(***************************************************************************)
BuyStep(i) ==
  LET e == tradeLog'[i]
      cost == e.quantity * e.price_estimate
      h == portfolio.holdings
  IN  IF portfolio.cash >= cost
        THEN /\ portfolio'.cash = portfolio.cash - cost
             /\ e.ticker \in DOMAIN portfolio'.holdings
             /\ portfolio'.holdings[e.ticker] = Held(h, e.ticker) + e.quantity
             /\ OthersUnchanged(h, portfolio'.holdings, e.ticker)
             /\ e.status = "EXECUTED"
        ELSE /\ portfolio' = portfolio
             /\ e.status = "FAILED - INSUFFICIENT FUNDS"

BuyExample ==
  LET r == ExecuteTrade(DefaultPortfolio, <<>>,
                        Decision("AAPL", "BUY", 10, 100), 1)
  IN  /\ r.portfolio = [cash |-> 99000, holdings |-> [t \in {"AAPL"} |-> 10]]
      /\ r.logEntry.status = "EXECUTED"

BuyRule ==
  [][/\ BuyExample
     /\ \A i \in Requests :
          ( /\ Applies(i)
            /\ tradeLog'[i].action = "BUY"
            /\ tradeLog'[i].ticker # "NONE"
            /\ IsNum(tradeLog'[i].quantity)
            /\ IsNum(tradeLog'[i].price_estimate)
            /\ IsNum(portfolio.cash) ) => BuyStep(i)]_vars

\* one BUY spent the cash to the last unit and a later one was refused
BuyWitness ==
  \E i, j \in Requests :
    /\ tradeLog[i].action = "BUY" /\ tradeLog[i].status = "EXECUTED"
    /\ tradeLog[i].quantity * Price = InitialCash
    /\ tradeLog[j].action = "BUY"
    /\ tradeLog[j].status = "FAILED - INSUFFICIENT FUNDS"
    /\ portfolio.cash = 0
    /\ Get(portfolio.holdings, tradeLog[i].ticker) = tradeLog[i].quantity

(***************************************************************************)
(* C6: a SELL of a ticker other than "NONE", held = holdings[ticker] or 0: *)
(* with held >= quantity, cash rises by quantity * price_estimate,         *)
(* holdings[ticker] falls by quantity and the key is removed when quantity *)
(* = held, status EXECUTED; with quantity > held nothing changes and the   *)
(* status is the insufficient-holdings failure.  Stated for the decisions  *)
(* of the schema only (quantity and price_estimate numbers >= 0).          *)
(***************************************************************************)
SellStep(i) ==
  LET e == tradeLog'[i]
      h == portfolio.holdings
      held == Held(h, e.ticker)
  IN  IF held >= e.quantity
        THEN /\ portfolio'.cash = portfolio.cash + e.quantity * e.price_estimate
             /\ IF e.quantity = held
                  THEN e.ticker \notin DOMAIN portfolio'.holdings
                  ELSE /\ e.ticker \in DOMAIN portfolio'.holdings
                       /\ portfolio'.holdings[e.ticker] = held - e.quantity
             /\ OthersUnchanged(h, portfolio'.holdings, e.ticker)
             /\ e.status = "EXECUTED"
        ELSE /\ portfolio' = portfolio
             /\ e.status = "FAILED - INSUFFICIENT HOLDINGS"

SellRule ==
  [][\A i \in Requests :
       ( /\ Applies(i)
         /\ tradeLog'[i].action = "SELL"
         /\ tradeLog'[i].ticker # "NONE"
         /\ SchemaValid(tradeLog'[i])
         /\ IsNum(portfolio.cash) ) => SellStep(i)]_vars

(***************************************************************************)
(* C7: a HOLD decision, or a decision for the ticker "NONE" whatever its   *)
(* action, leaves cash and holdings as they were and is logged at the head *)
(* of history with status EXECUTED.                                        *)
(***************************************************************************)
NoOpRule ==
  [][\A i \in Requests :
       ( /\ Applies(i)
         /\ (tradeLog'[i].action = "HOLD" \/ tradeLog'[i].ticker = "NONE") )
       => /\ portfolio' = portfolio
          /\ Head(history') = tradeLog'[i]
          /\ tradeLog'[i].status = "EXECUTED"]_vars

\* a BUY for "NONE" has just been logged
NoOpWitness ==
  \E i \in Requests :
    /\ pc[i] = "put1"
    /\ tradeLog[i].action = "BUY" /\ tradeLog[i].ticker = "NONE"
    /\ history # <<>> /\ Head(history) = tradeLog[i]
    /\ portfolio = DefaultPortfolio

(***************************************************************************)
(* C8: no oracle output reaches executeTrade unless it is schema-valid:    *)
(* every decision executeTrade has logged is schema-valid or the fallback  *)
(* {action: HOLD, ticker: "ERROR"}.                                        *)
(***************************************************************************)
OnlyValidDecisions ==
  \A i \in Requests :
    tradeLog[i] # NoEntry => SchemaValid(tradeLog[i]) \/ IsFallback(tradeLog[i])

(***************************************************************************)
(* C9: when the oracle call fails or its text cannot be parsed, the        *)
(* request goes on: executeTrade logs exactly one entry, with ticker       *)
(* "ERROR" and action HOLD, and cash and holdings stay as they were; the   *)
(* request is answered with an error only if a storage write rejects.      *)
(***************************************************************************)
FallbackRule ==
  [][\A i \in Requests :
       /\ ( /\ pc[i] = "oracle" /\ pc'[i] # "oracle"
            /\ oracle'[i] \in {"error", "unparsable"} )
          => /\ Applies(i)
             /\ portfolio' = portfolio
             /\ Len(history') = Min(Len(history) + 1, MaxHistory)
             /\ Head(history').ticker = "ERROR"
             /\ Head(history').action = "HOLD"
             /\ Head(history').status = "EXECUTED"
             /\ Tail(history') = SubSeq(history, 1, Len(history') - 1)
       /\ ( /\ pc'[i] = "failed"
            /\ oracle'[i] \in {"error", "unparsable"} )
          => response'[i] = ErrorResponse("IOError")]_vars

\* a request whose oracle call failed has been answered, its entry logged
FallbackWitness ==
  \E i \in Requests :
    /\ oracle[i] = "error"
    /\ pc[i] = "done"
    /\ response[i].status = 200
    /\ IsFallback(response[i].trade_details)
    /\ Head(history) = response[i].trade_details
    /\ portfolio = DefaultPortfolio

(***************************************************************************)
(* C10: no mutation is applied partially when persistence fails: once a    *)
(* request has been answered with the storage failure and no handler is    *)
(* running, the in-memory portfolio and history equal the durable ones     *)
(* (the last saved state).                                                 *)
(***************************************************************************)
NoPartialMutation ==
  ( /\ Quiescent
    /\ \E i \in Requests : response[i] = ErrorResponse("IOError") )
  => /\ portfolio = DurablePortfolio
     /\ history = DurableHistory

(***************************************************************************)
(* C11: the object handles no request before the load of "portfolio" and   *)
(* "history" has completed, and when the load has completed and no request *)
(* has been handled since the construction, the in-memory portfolio and    *)
(* history are the stored values where a key is stored and the defaults    *)
(* where it is not; this holds for the first construction and for a        *)
(* construction that follows earlier mutations.                            *)
(***************************************************************************)
LoadBarrier ==
  /\ ~(boot.at = "ready") =>
       /\ arrived = boot.arrived
       /\ \A i \in Requests : ~Running(i)
       /\ ~stateResp.sent
  /\ (boot.at = "ready" /\ arrived = boot.arrived) =>
       /\ portfolio = DurablePortfolio
       /\ history = DurableHistory

\* the object was constructed again after a trade was persisted, has loaded
\* a portfolio and a history that are not the defaults, and has handled no
\* request since
LoadWitness ==
  /\ restarts = 1
  /\ boot.at = "ready"
  /\ arrived = boot.arrived
  /\ stored.keys = {"portfolio", "history"}
  /\ portfolio = stored.portfolio
  /\ portfolio # DefaultPortfolio
  /\ history = stored.history
  /\ Len(history) > 0

\* the portfolio that results from the defaults when the logged decisions
\* are applied again, oldest first; every entry, rejected or not, is logged
RECURSIVE Replay(_)
Replay(h) ==
  IF h = <<>> THEN DefaultPortfolio
  ELSE Apply(Replay(Tail(h)), Head(h)).portfolio

\* the status each logged decision gets when it is applied again is the one
\* its entry carries
RECURSIVE StatusesAgree(_)
StatusesAgree(h) ==
  \/ h = <<>>
  \/ /\ Apply(Replay(Tail(h)), Head(h)).status = Head(h).status
     /\ StatusesAgree(Tail(h))

HistoryCap ==
  [][/\ Len(history') <= MaxHistory
     /\ \A k \in 1..(Len(history') - 1) :
          history'[k].timestamp > history'[k + 1].timestamp
     /\ \A i \in Requests :
          Applies(i) =>
            /\ Len(history') = Min(Len(history) + 1, MaxHistory)
            /\ history'[1] = tradeLog'[i]
            /\ \A k \in 2..Len(history') : history'[k] = history[k - 1]
            /\ Len(history) = MaxHistory =>
                 \A k \in 1..Len(history') :
                   history'[k] # history[MaxHistory]]_vars

\* two trades after SeedLen stored entries: the history is full, the oldest
\* stored entry has been evicted and the second oldest is the last
HistoryCapWitness ==
  /\ Len(history) = MaxHistory
  /\ restarts = 0
  /\ Len(applied) = 2
  /\ history[MaxHistory] = SeededStorage.history[SeedLen - 1]
  /\ history[1].timestamp = 2
  /\ history[2].timestamp = 1

\* request i is answered in this step
Responds(i) == pc[i] # "done" /\ pc'[i] = "done"

(***************************************************************************)
(* C14: every completed mutating operation ends with both keys persisted:  *)
(* at the step that produces the response of a chat or a reset, storage    *)
(* holds both keys and they are the portfolio and the history that         *)
(* operation left in memory.                                               *)
(***************************************************************************)
SavedWhenAnswered ==
  [][\A i \in Requests :
       Responds(i) =>
         /\ stored'.keys = {"portfolio", "history"}
         /\ stored'.portfolio = result[i].portfolio
         /\ stored'.history = result[i].history]_vars

(***************************************************************************)
(* C15: /api/reset sets the portfolio to the defaults and the history to   *)
(* the empty sequence, in memory and in storage, before it responds: its   *)
(* first step leaves the defaults in memory and puts the default           *)
(* portfolio, its second put writes the empty history, and when it         *)
(* responds storage holds both.                                            *)
(***************************************************************************)
ResetSetsDefaults ==
  [][\A i \in Requests :
       /\ (pc[i] = "idle" /\ kind'[i] = "reset") =>
            /\ portfolio' = DefaultPortfolio
            /\ history' = <<>>
            /\ pc'[i] = "put1" => /\ "portfolio" \in stored'.keys
                                  /\ stored'.portfolio = DefaultPortfolio
       /\ (kind[i] = "reset" /\ pc[i] = "put1" /\ pc'[i] = "put2") =>
            /\ "history" \in stored'.keys
            /\ stored'.history = <<>>
       /\ (kind[i] = "reset" /\ Responds(i)) =>
            stored'.keys = {"portfolio", "history"}]_vars

\* the ledger a reset leaves: the defaults in memory and in storage
AfterReset ==
  /\ portfolio = DefaultPortfolio
  /\ history = <<>>
  /\ DurablePortfolio = DefaultPortfolio
  /\ DurableHistory = <<>>

(***************************************************************************)
(* C16: /api/reset is idempotent: a reset that ran with no other handler   *)
(* (none suspended when it arrived, none accepted before it was answered)  *)
(* leaves the defaults in memory and under both keys of storage, and every *)
(* step of a reset that starts in that state ends in it, so a second reset *)
(* leaves what the first left.                                             *)
(***************************************************************************)
ResetIdempotent ==
  [][\A i \in Requests :
       /\ ( /\ kind[i] = "reset"
            /\ Responds(i)
            /\ result[i].alone
            /\ arrived = i )
          => AfterReset' /\ stored'.keys = {"portfolio", "history"}
       /\ (AfterReset /\ kind'[i] = "reset" /\ pc'[i] # pc[i])
          => AfterReset']_vars

\* two resets have been answered and the ledger is the one a reset leaves,
\* both keys stored
ResetTwiceWitness ==
  /\ kind = [i \in Requests |-> "reset"]
  /\ \A i \in Requests : pc[i] = "done" /\ response[i].status = 200
  /\ restarts = 0
  /\ AfterReset
  /\ stored.keys = {"portfolio", "history"}

\* the SELL that undoes the BUY an entry logs: same ticker, quantity, price
SellBack(e) == Decision(e.ticker, "SELL", e.quantity, e.price_estimate)

(***************************************************************************)
(* C17: conservation: whenever executeTrade executes a BUY, a SELL of the   *)
(* same quantity of the same ticker at the same price applied immediately  *)
(* after it is executed too and returns the cash to its value before the   *)
(* BUY and holdings[ticker] to what it was before the BUY, the key absent  *)
(* again if it was absent.  Stated for ledgers that decisions of the       *)
(* schema (and fallback entries) alone have produced.                      *)
(***************************************************************************)
Conservation ==
  [][\A i \in Requests :
       ( /\ Applies(i)
         /\ tradeLog'[i].action = "BUY"
         /\ tradeLog'[i].ticker # "NONE"
         /\ tradeLog'[i].status = "EXECUTED"
         /\ \A k \in 1..Len(history') :
              SchemaValid(history'[k]) \/ IsFallback(history'[k])
         /\ restarts = 0 )
       => LET back == Apply(portfolio', SellBack(tradeLog'[i]))
          IN  /\ back.status = "EXECUTED"
              /\ back.portfolio.cash = portfolio.cash
              /\ Get(back.portfolio.holdings, tradeLog'[i].ticker)
                   = Get(portfolio.holdings, tradeLog'[i].ticker)]_vars

NewPortfolioIsOwn ==
  \A i \in Requests :
    (kind[i] = "chat" /\ pc[i] = "done"
       /\ SchemaValid(response[i].trade_details))
    => response[i].new_portfolio = result[i].portfolio

\* the scheduling the claim grants: the load ends, a body that is being
\* read arrives, the oracle call returns or fails, a put settles
Fairness ==
  /\ WF_vars(LoadPortfolio)
  /\ WF_vars(LoadHistory)
  /\ \A i \in Requests :
       /\ WF_vars(BuildPrompt(i))
       /\ WF_vars(OracleReturns(i))
       /\ WF_vars(PutPortfolioSettles(i))
       /\ WF_vars(PutHistorySettles(i))

\* the object under that scheduling
SpecLive == Init /\ [][Next]_vars /\ Fairness

(***************************************************************************)
(* C20: every accepted /api/chat request eventually produces a response,   *)
(* given that the oracle call returns or fails and the storage writes      *)
(* complete: whatever the interleaving and whatever the oracle's outcome,  *)
(* the handler ends with its response, unless a storage write was rejected *)
(* or the object was restarted under it.                                   *)
(***************************************************************************)
ChatAnswered ==
  \A i \in Requests :
    (kind[i] = "chat" /\ pc[i] = "body")
      ~> \/ pc[i] = "done" /\ response[i].status = 200
         \/ pc[i] = "failed" /\ response[i] = ErrorResponse("IOError")
         \/ pc[i] = "aborted"

====
